---- MODULE Spec2Model ----
(***************************************************************************)
(* Model of lava-frappe-sdk's request-handling core: ApiEndpoint.run with  *)
(* its impersonation check, API-version resolution, execution boundary and *)
(* response envelope and its parameter-validation helpers                  *)
(* (endpoints/api_endpoint.py), and the translation of single strings and  *)
(* of response trees (endpoints/utils/translation.py).                     *)
(*                                                                         *)
(* One behaviour is one endpoint instance serving one request (an instance *)
(* is made per request): Init is the state after ApiEndpoint.__init__ with *)
(* the request pending in the framework's request/session globals, and     *)
(* each action is one call of a public method, modelled whole.             *)
(***************************************************************************)
EXTENDS Integers, Sequences, FiniteSets, TLC

VARIABLES
    impersonate_user,          \* self.impersonate_user
    logged_parameter_sources,  \* self.logged_parameter_sources (its keys)
    api_version,               \* self.api_version, set by run
    session,                   \* frappe.session: [user, data_user]
    request,                   \* frappe.request: [args, data, form, lang]
    translations,              \* rows of the Translation doctype
    error_codes,               \* rows of the Error Code doctype
    db_pending,                \* frappe.db holds uncommitted writes
    http_status_code,          \* frappe.local.response.http_status_code
    call,                      \* the last call: its name, arguments and the caller before it
    ret,                       \* what the last call returned or raised
    trace,                     \* what the last call did, in order
    args,                      \* the arguments of the last helper or translation call
    obj,                       \* the response tree handed to _translate, changed in place
    keys                       \* the keys the last extraction pass collected

vars == <<impersonate_user, logged_parameter_sources, api_version, session,
          request, translations, error_codes, db_pending, http_status_code, call, ret,
          trace, args, obj, keys>>

-----------------------------------------------------------------------------
(* Bounds *)

\* integer API versions range over 1..MaxVersion
MaxVersion == 2

-----------------------------------------------------------------------------
(* Python values, and a dictionary's missing key *)

PyNone == [t |-> "none", i |-> 0, s |-> ""]
PyInt(n) == [t |-> "int", i |-> n, s |-> ""]
PyStr(x) == [t |-> "str", i |-> 0, s |-> x]
Absent == [t |-> "absent", i |-> 0, s |-> ""]

\* bool, float (of a whole value) and list (of a length) values
PyBool(b) == [t |-> "bool", i |-> IF b THEN 1 ELSE 0, s |-> ""]
PyFloat(n) == [t |-> "float", i |-> n, s |-> ""]
PyList(n) == [t |-> "list", i |-> n, s |-> ""]

Digit == <<"0", "1", "2", "3", "4", "5", "6", "7", "8", "9">>

RECURSIVE IntToStr(_)
IntToStr(n) ==
    IF n < 10 THEN Digit[n + 1] ELSE IntToStr(n \div 10) \o Digit[(n % 10) + 1]

\* str(v)
Str(v) ==
    CASE v.t = "int" -> IntToStr(v.i)
      [] v.t = "str" -> v.s
      [] OTHER -> "None"

\* bool(v)
Truthy(v) ==
    CASE v.t \in {"int", "bool", "float", "list"} -> v.i # 0
      [] v.t = "str" -> v.s # ""
      [] OTHER -> FALSE

\* dict.get(key, None)
Get(v) == IF v = Absent THEN PyNone ELSE v

\* str.isdigit(): not empty, and every character a digit
IsDigit(s) ==
    /\ s # ""
    /\ \A k \in 1..Len(s) : SubSeq(s, k, k) \in {Digit[d] : d \in DOMAIN Digit}

\* str.rstrip(): without its trailing whitespace
RECURSIVE RStrip(_)
RStrip(s) ==
    IF s # "" /\ SubSeq(s, Len(s), Len(s)) = " "
    THEN RStrip(SubSeq(s, 1, Len(s) - 1))
    ELSE s

-----------------------------------------------------------------------------
(* The persistence collaborator's content that the endpoint only reads *)

\* User documents: frappe.db.exists('User', user_id)
ExistingUsers == {"hub", "ann"}

UserExists(user_id) == user_id \in ExistingUsers

\* frappe.get_roles() of the session user
get_roles(user) ==
    CASE user = "hub" -> {"System Manager", "All"}
      [] user = "ann" -> {"Sales User", "All"}
      [] OTHER -> {}

-----------------------------------------------------------------------------
(* Templates (string.Template): a text is a sequence of literal parts and  *)
(* $-placeholders; a plain string is one literal part.                     *)

Lit(s) == <<[ph |-> FALSE, s |-> s]>>
Ph(name) == <<[ph |-> TRUE, s |-> name]>>

EmptyDict == <<>>

RECURSIVE Render(_, _)
Render(tpl, sub_dict) ==
    IF tpl = <<>> THEN ""
    ELSE (IF Head(tpl).ph THEN sub_dict[Head(tpl).s] ELSE Head(tpl).s)
             \o Render(Tail(tpl), sub_dict)

\* Template(tpl).substitute(sub_dict): KeyError on a placeholder sub_dict lacks
Substitute(tpl, sub_dict) ==
    LET missing == {tpl[k].s : k \in {j \in DOMAIN tpl : tpl[j].ph}} \ DOMAIN sub_dict
    IN  IF missing # {} THEN [raised |-> TRUE, value |-> ""]
        ELSE [raised |-> FALSE, value |-> Render(tpl, sub_dict)]

-----------------------------------------------------------------------------
(* Exceptions a handler can raise: the class name and the caught classes   *)
(* the instance belongs to (isinstance)                                    *)

Kinds == {"frappe.ValidationError", "NotFound", "BadRequest",
          "frappe.PermissionError", "PermissionError", "POSException"}

Exc(name, kinds, msg) == [name |-> name, kinds |-> kinds, msg |-> msg]

NoException == Exc("", {}, "")

Exceptions ==
    { Exc("ValidationError", {"frappe.ValidationError"}, "Qty is mandatory"),
      Exc("MandatoryError", {"frappe.ValidationError"}, "Customer is required"),
      Exc("NotFound", {"NotFound"}, "404 Not Found"),
      Exc("BadRequest", {"BadRequest"}, "400 Bad Request"),
      Exc("PermissionError", {"frappe.PermissionError"}, "No permission for Invoice"),
      Exc("PermissionError", {"PermissionError"}, "[Errno 13] Permission denied"),
      Exc("POSException", {"POSException"}, "Shift is closed"),
      Exc("KeyError", {}, "'customer'"),
      Exc("ItemNotFoundError", {"frappe.ValidationError", "NotFound"}, "Item X not found"),
      Exc("POSValidationError", {"frappe.ValidationError", "POSException"}, "Invalid POS profile"),
      Exc("POSAccessError", {"PermissionError", "POSException"}, "Cashier locked"),
      Exc("BadLookup", {"NotFound", "BadRequest"}, "Bad lookup") }

-----------------------------------------------------------------------------
(* The response envelope *)

Envelope(message, data, errorCode, code, developer_message) ==
    [message |-> message, data |-> data, errorCode |-> errorCode, code |-> code,
     developer_message |-> developer_message]

NoEnvelope == Envelope("", "", "", 0, "")

-----------------------------------------------------------------------------
(* Single-string translation (endpoints/utils/translation.py) *)

NoRow == [source_text |-> "", language |-> "", translated_text |-> <<>>]

\* frappe.get_value("Translation", {source_text, language}, ["translated_text"])
TranslationRow(source_text, language) ==
    LET rows == {r \in translations :
                    r.source_text = source_text /\ r.language = language}
    IN  IF rows = {} THEN NoRow ELSE CHOOSE r \in rows : TRUE

\* guess_language(lang_list=["en", "ar"]) on the Accept-Language header
get_request_language ==
    CASE request.lang = "ar" -> "ar"
      [] request.lang = "en" -> "en"
      [] OTHER -> ""

translate_single(source, lang) ==
    LET row == IF IsDigit(source) THEN NoRow ELSE TranslationRow(RStrip(source), lang)
    IN  IF row.translated_text # <<>> THEN row.translated_text ELSE Lit(source)

\* translate(source, lang) on a string source
translate(source, lang) ==
    LET language == IF lang = "" THEN get_request_language ELSE lang
    IN  translate_single(source, IF language = "en-US,en;q=0.5" THEN "en" ELSE language)

-----------------------------------------------------------------------------
(* ApiEndpoint.respond_with_code *)

NoError == [name |-> "", message |-> "", http_code |-> 0]

\* frappe.get_value("Error Code", {'name': error_code}, ['message', 'http_code'])
ErrorCodeRow(error_code) ==
    LET rows == {r \in error_codes : r.name = error_code}
    IN  IF rows = {} THEN NoError ELSE CHOOSE r \in rows : TRUE

has_request == TRUE

\* respond_with_code with a fallback message that leaves the error code out
respond_with_code_fallback_without_code(message, data, code, error_code, exception, developer_message, sub_dict) ==
    LET dev == IF developer_message # "" THEN developer_message ELSE message
        ec == IF exception # NoException /\ error_code = "" THEN exception.name
              ELSE error_code
        lookup == ec # "" /\ message = ""
        error == IF lookup THEN ErrorCodeRow(ec) ELSE NoError
        msg1 == IF ~lookup THEN message
                ELSE IF error = NoError THEN "Server Error"
                ELSE error.message
        code1 == IF lookup /\ error # NoError /\ code = 0 THEN error.http_code ELSE code
        language == IF has_request
                    THEN (IF get_request_language # "" THEN get_request_language ELSE "en")
                    ELSE "en"
        sub == Substitute(translate(IF ec # "" THEN ec ELSE msg1, language), sub_dict)
        msg2 == IF ec # "" /\ sub.value = ec THEN msg1 ELSE sub.value
        ev == (IF lookup THEN <<"get_value Error Code">> ELSE <<>>) \o <<"translate">>
    IN  IF sub.raised
        THEN [raised |-> TRUE, exc |-> Exc("KeyError", {}, "placeholder"),
              env |-> NoEnvelope, http |-> code, ev |-> ev]
        ELSE [raised |-> FALSE, exc |-> NoException,
              env |-> Envelope(msg2, data, ec, code1, dev), http |-> code,
              ev |-> ev \o <<"envelope">>]

respond_with_code(message, data, code, error_code, exception, developer_message, sub_dict) ==
    LET dev == IF developer_message # "" THEN developer_message ELSE message
        ec == IF exception # NoException /\ error_code = "" THEN exception.name
              ELSE error_code
        lookup == ec # "" /\ message = ""
        error == IF lookup THEN ErrorCodeRow(ec) ELSE NoError
        msg1 == IF ~lookup THEN message
                ELSE IF error = NoError THEN "Server Error (" \o ec \o ")"
                ELSE error.message
        code1 == IF lookup /\ error # NoError /\ code = 0 THEN error.http_code ELSE code
        language == IF has_request
                    THEN (IF get_request_language # "" THEN get_request_language ELSE "en")
                    ELSE "en"
        sub == Substitute(translate(IF ec # "" THEN ec ELSE msg1, language), sub_dict)
        msg2 == IF ec # "" /\ sub.value = ec THEN msg1 ELSE sub.value
        ev == (IF lookup THEN <<"get_value Error Code">> ELSE <<>>) \o <<"translate">>
    IN  IF sub.raised
        THEN [raised |-> TRUE, exc |-> Exc("KeyError", {}, "placeholder"),
              env |-> NoEnvelope, http |-> code, ev |-> ev]
        ELSE [raised |-> FALSE, exc |-> NoException,
              env |-> Envelope(msg2, data, ec, code1, dev), http |-> code,
              ev |-> ev \o <<"envelope">>]

-----------------------------------------------------------------------------
(* ApiEndpoint.execute *)

\* what the handler does when called: returns an envelope or raises, having
\* written to the database (writes) or not
Return(env, writes) == [raises |-> FALSE, env |-> env, exc |-> NoException, writes |-> writes]
Raise(exc, writes) == [raises |-> TRUE, env |-> NoEnvelope, exc |-> exc, writes |-> writes]

NoOutcome == [raises |-> FALSE, env |-> NoEnvelope, exc |-> NoException, writes |-> FALSE]

\* except_clause with the POSException clause moved before the permission clause
except_clause_business_before_permission(e) ==
    IF "frappe.ValidationError" \in e.kinds THEN 1
    ELSE IF "NotFound" \in e.kinds THEN 2
    ELSE IF "BadRequest" \in e.kinds THEN 3
    ELSE IF "POSException" \in e.kinds THEN 5
    ELSE IF e.kinds \cap {"frappe.PermissionError", "PermissionError"} # {} THEN 4
    ELSE 6

\* the except clause that catches e, in the order the clauses are written
except_clause(e) ==
    IF "frappe.ValidationError" \in e.kinds THEN 1
    ELSE IF "NotFound" \in e.kinds THEN 2
    ELSE IF "BadRequest" \in e.kinds THEN 3
    ELSE IF e.kinds \cap {"frappe.PermissionError", "PermissionError"} # {} THEN 4
    ELSE IF "POSException" \in e.kinds THEN 5
    ELSE 6

\* respond_to_exception with the POSException clause passing str(e) as the message
respond_to_exception_message_from_exception(e) ==
    CASE except_clause(e) = 1 ->
            respond_with_code("", "None", 417, "", e, "", EmptyDict)
      [] except_clause(e) = 2 ->
            respond_with_code("", "None", 404, "", e, "", EmptyDict)
      [] except_clause(e) = 3 ->
            respond_with_code("", "None", 400, "", e, "", EmptyDict)
      [] except_clause(e) = 4 ->
            respond_with_code("", "None", 403, "Forbidden", e, "", EmptyDict)
      [] except_clause(e) = 5 ->
            respond_with_code(e.msg, "None", 417, "", e, "", EmptyDict)
      [] OTHER ->
            respond_with_code("", "None", 500, "", e, "", EmptyDict)

\* the error envelope each except clause builds
respond_to_exception(e) ==
    CASE except_clause(e) = 1 ->
            respond_with_code("", "None", 417, "", e, "", EmptyDict)
      [] except_clause(e) = 2 ->
            respond_with_code("", "None", 404, "", e, "", EmptyDict)
      [] except_clause(e) = 3 ->
            respond_with_code("", "None", 400, "", e, "", EmptyDict)
      [] except_clause(e) = 4 ->
            respond_with_code("", "None", 403, "Forbidden", e, "", EmptyDict)
      [] except_clause(e) = 5 ->
            respond_with_code("", "None", 417, "", e, e.msg, EmptyDict)
      [] OTHER ->
            respond_with_code("", "None", 500, "", e, "", EmptyDict)

\* execute wrapping what the handler returns in an envelope of its own
execute_wrapping_result(name, outcome) ==
    IF ~outcome.raises
    THEN [raised |-> FALSE, exc |-> NoException,
          env |-> Envelope("", outcome.env.data, "", 200, ""),
          ev |-> <<"handler " \o name>>,
          db_pending |-> db_pending \/ outcome.writes,
          http |-> http_status_code]
    ELSE LET r == respond_to_exception(outcome.exc)
         IN  [raised |-> r.raised, exc |-> r.exc, env |-> r.env,
              ev |-> <<"handler " \o name, "rollback">> \o r.ev,
              db_pending |-> FALSE,
              http |-> r.http]

\* execute(action): the result, the events in order, and what it leaves behind
execute(name, outcome) ==
    IF ~outcome.raises
    THEN [raised |-> FALSE, exc |-> NoException, env |-> outcome.env,
          ev |-> <<"handler " \o name>>,
          db_pending |-> db_pending \/ outcome.writes,
          http |-> http_status_code]
    ELSE LET r == respond_to_exception(outcome.exc)
         IN  [raised |-> r.raised, exc |-> r.exc, env |-> r.env,
              ev |-> <<"handler " \o name, "rollback">> \o r.ev,
              db_pending |-> FALSE,
              http |-> r.http]

-----------------------------------------------------------------------------
(* Request parameter sources *)

\* a parameter dictionary: its number of keys, and its user_id and api_version
Dict(n, user_id, version) == [n |-> n, user_id |-> user_id, api_version |-> version]

\* a query string holding just the user_id and api_version given
Args(user_id, version) ==
    Dict((IF user_id = Absent THEN 0 ELSE 1) + (IF version = Absent THEN 0 ELSE 1),
         user_id, version)

\* query_string(): frappe.request.args
query_string == request.args

\* json_body(): the body parsed as JSON, an empty dictionary if it is empty or not JSON
json_body ==
    IF request.data.raw = "json" THEN request.data.obj ELSE Dict(0, Absent, Absent)

\* form_body(): the form fields and files
form_body == request.form

get_impersonated_user_id ==
    LET q == Get(query_string.user_id)
    IN  IF Truthy(q) THEN [user_id |-> q, ev |-> <<"query">>]
        ELSE [user_id |-> Get(json_body.user_id), ev |-> <<"query", "json">>]

\* try_get_api_version_from_query_and_body falling back to the form body
\* whenever the JSON body has no api_version
try_get_api_version_form_if_json_lacks_version ==
    IF query_string.api_version # Absent
    THEN [version |-> query_string.api_version, ev |-> <<"query">>]
    ELSE LET useForm == json_body.api_version = Absent
             params == IF useForm THEN form_body ELSE json_body
         IN  [version |-> Get(params.api_version),
              ev |-> IF useForm THEN <<"query", "json", "form">> ELSE <<"query", "json">>]

try_get_api_version_from_query_and_body ==
    IF query_string.api_version # Absent
    THEN [version |-> query_string.api_version, ev |-> <<"query">>]
    ELSE LET useForm == json_body.n = 0
             params == IF useForm THEN form_body ELSE json_body
         IN  [version |-> Get(params.api_version),
              ev |-> IF useForm THEN <<"query", "json", "form">> ELSE <<"query", "json">>]

-----------------------------------------------------------------------------
(* ApiEndpoint.impersonate *)

\* impersonate checking the role before the caller's own identity
impersonate_role_before_self ==
    LET got == get_impersonated_user_id
        user_id == got.user_id
        same == [user |-> session.user, data_user |-> session.data_user]
    IN  IF ~Truthy(user_id)
        THEN [ok |-> FALSE, session |-> same, ev |-> got.ev]
        ELSE IF ~UserExists(user_id.s)
        THEN [ok |-> FALSE, session |-> same, ev |-> got.ev \o <<"exists">>]
        ELSE IF "System Manager" \notin get_roles(session.user)
        THEN [ok |-> FALSE, session |-> same, ev |-> got.ev \o <<"exists", "get_roles">>]
        ELSE IF session.user = user_id.s
        THEN [ok |-> TRUE, session |-> same, ev |-> got.ev \o <<"exists", "get_roles">>]
        ELSE [ok |-> TRUE,
              session |-> [user |-> user_id.s, data_user |-> user_id.s],
              ev |-> got.ev \o <<"exists", "get_roles", "set_user">>]

\* impersonate taking a request without user_id as nothing to do
impersonate_absent_is_noop ==
    LET got == get_impersonated_user_id
        user_id == got.user_id
        same == [user |-> session.user, data_user |-> session.data_user]
    IN  IF ~Truthy(user_id)
        THEN [ok |-> TRUE, session |-> same, ev |-> got.ev]
        ELSE IF ~UserExists(user_id.s)
        THEN [ok |-> FALSE, session |-> same, ev |-> got.ev \o <<"exists">>]
        ELSE IF session.user = user_id.s
        THEN [ok |-> TRUE, session |-> same, ev |-> got.ev \o <<"exists">>]
        ELSE IF "System Manager" \notin get_roles(session.user)
        THEN [ok |-> FALSE, session |-> same, ev |-> got.ev \o <<"exists", "get_roles">>]
        ELSE [ok |-> TRUE,
              session |-> [user |-> user_id.s, data_user |-> user_id.s],
              ev |-> got.ev \o <<"exists", "get_roles", "set_user">>]

\* impersonate without putting the session data back after set_user
impersonate_loses_session_data ==
    LET got == get_impersonated_user_id
        user_id == got.user_id
        same == [user |-> session.user, data_user |-> session.data_user]
    IN  IF ~Truthy(user_id)
        THEN [ok |-> FALSE, session |-> same, ev |-> got.ev]
        ELSE IF ~UserExists(user_id.s)
        THEN [ok |-> FALSE, session |-> same, ev |-> got.ev \o <<"exists">>]
        ELSE IF session.user = user_id.s
        THEN [ok |-> TRUE, session |-> same, ev |-> got.ev \o <<"exists">>]
        ELSE IF "System Manager" \notin get_roles(session.user)
        THEN [ok |-> FALSE, session |-> same, ev |-> got.ev \o <<"exists", "get_roles">>]
        ELSE [ok |-> TRUE,
              session |-> [user |-> user_id.s, data_user |-> ""],
              ev |-> got.ev \o <<"exists", "get_roles", "set_user">>]

impersonate ==
    LET got == get_impersonated_user_id
        user_id == got.user_id
        same == [user |-> session.user, data_user |-> session.data_user]
    IN  IF ~Truthy(user_id)
        THEN [ok |-> FALSE, session |-> same, ev |-> got.ev]
        ELSE IF ~UserExists(user_id.s)
        THEN [ok |-> FALSE, session |-> same, ev |-> got.ev \o <<"exists">>]
        ELSE IF session.user = user_id.s
        THEN [ok |-> TRUE, session |-> same, ev |-> got.ev \o <<"exists">>]
        ELSE IF "System Manager" \notin get_roles(session.user)
        THEN [ok |-> FALSE, session |-> same, ev |-> got.ev \o <<"exists", "get_roles">>]
        ELSE [ok |-> TRUE,
              session |-> [user |-> user_id.s, data_user |-> user_id.s],
              ev |-> got.ev \o <<"exists", "get_roles", "set_user">>]

-----------------------------------------------------------------------------
(* Version-tagged methods *)

Method(name, version) == [name |-> name, version |-> version]

NoMethod == Method("", Absent)

\* the method names of the model in alphabetical order
NameOrder == <<"default", "fetch_v2", "get_v1", "list_v2">>

NameRank(name) == CHOOSE k \in DOMAIN NameOrder : NameOrder[k] = name

RECURSIVE InsertByName(_, _)
InsertByName(m, sorted) ==
    IF sorted = <<>> THEN <<m>>
    ELSE IF NameRank(m.name) <= NameRank(Head(sorted).name) THEN <<m>> \o sorted
    ELSE <<Head(sorted)>> \o InsertByName(m, Tail(sorted))

RECURSIVE SortByName(_)
SortByName(ms) ==
    IF ms = <<>> THEN <<>> ELSE InsertByName(Head(ms), SortByName(Tail(ms)))

\* the endpoint class: its methods in declaration order, tagged by @api_version
\* or not
members ==
    <<Method("list_v2", PyInt(2)), Method("default", Absent),
      Method("get_v1", PyInt(1)), Method("fetch_v2", PyStr("2"))>>

\* getmembers in declaration order
getmembers_as_declared == members

\* inspect.getmembers(self, inspect.ismethod): the methods sorted by name
getmembers == SortByName(members)

\* get_method_by_api_version falling back to the first tagged method
get_method_or_first_tagged(version) ==
    LET tagged == SelectSeq(SortByName(members), LAMBDA f : f.version # Absent)
        methods == SelectSeq(tagged, LAMBDA f : Str(f.version) = Str(version))
    IN  IF methods = <<>> THEN [method |-> tagged[1], warned |-> FALSE]
        ELSE [method |-> methods[1], warned |-> Len(methods) > 1]

get_method_by_api_version(version) ==
    LET methods == SelectSeq(getmembers,
                       LAMBDA f : f.version # Absent /\ Str(f.version) = Str(version))
    IN  IF methods = <<>> THEN [method |-> NoMethod, warned |-> FALSE]
        ELSE [method |-> methods[1], warned |-> Len(methods) > 1]

-----------------------------------------------------------------------------
(* The inputs: requests, endpoint classes, stored rows, handler behaviours *)

UserIds == {Absent, PyStr(""), PyStr("hub"), PyStr("ann"), PyStr("ghost")}

Requests ==
    [args : {Args(u, v) : u \in UserIds, v \in {Absent, PyStr("2"), PyStr("9")}},
     data : {[raw |-> "empty", obj |-> Dict(0, Absent, Absent)],
             [raw |-> "invalid", obj |-> Dict(0, Absent, Absent)],
             [raw |-> "json", obj |-> Dict(1, Absent, Absent)],
             [raw |-> "json", obj |-> Dict(1, Absent, PyInt(MaxVersion))],
             [raw |-> "json", obj |-> Dict(1, PyStr("ann"), Absent)]},
     form : {Dict(0, Absent, Absent), Dict(1, Absent, PyStr("1"))},
     lang : {"ar", "fr"}]

\* run(**kwargs): the api_version keyword, if given
KwargVersions == {Absent, PyNone, PyStr("9")} \cup {PyInt(n) : n \in 1..MaxVersion}

\* versions get_method_by_api_version is asked for
Versions ==
    {PyNone, PyStr("1"), PyStr("2"), PyStr("9"), PyStr("")}
        \cup {PyInt(n) : n \in 0..MaxVersion}

Row(source_text, language, translated_text) ==
    [source_text |-> source_text, language |-> language,
     translated_text |-> translated_text]

ErrorCode(name, message, http_code) ==
    [name |-> name, message |-> message, http_code |-> http_code]

\* the stored rows: an empty site, and one with error codes and translations
Databases ==
    { [translations |-> {}, error_codes |-> {}],
      [translations |->
          { Row("Forbidden", "ar", Lit("mamnu")),
            Row("Forbidden", "en", Lit("No access to ") \o Ph("doctype")),
            Row("InvalidVersion", "ar", Lit("isdar ghayr salih")),
            Row("POSException", "en", Lit("Point of sale error")),
            Row("NotFound", "ar", Lit("ghayr mawjud")),
            Row("ValidationError", "ar", Ph("field") \o Lit(" matlub")),
            Row("KeyError", "en", Lit("Missing ") \o Ph("key")) },
       error_codes |->
          { ErrorCode("Forbidden", "You are not permitted", 403),
            ErrorCode("POSException", "POS operation failed", 417),
            ErrorCode("MandatoryError", "A mandatory field is missing", 417) }] }

\* default(): the base implementation
default == respond_with_code("", "{}", 200, "", NoException, "", EmptyDict).env

Outcomes ==
    {Return(default, FALSE),
     Return(Envelope("Saved", "doc", "", 200, "Saved"), TRUE),
     Return(Envelope("Out of stock", "None", "OutOfStock", 417, "Out of stock"), FALSE)}
        \cup {Raise(e, TRUE) : e \in Exceptions}

-----------------------------------------------------------------------------
(* The state machine *)

NoCall == [op |-> "", caller |-> "", kwargs |-> Absent, version |-> PyNone,
           handler |-> "", outcome |-> NoOutcome]

Result(kind, env, exc, method) ==
    [kind |-> kind, env |-> env, exc |-> exc, method |-> method]

NoResult == Result("", NoEnvelope, NoException, NoMethod)

\* no helper or translation call yet, and no response tree
NoArgs == [op |-> ""]

NoTree == [kind |-> "other", s |-> "None", items |-> <<>>]

\* a call's outcome as a result: the envelope returned or the exception raised
Outcome(r) ==
    IF r.raised THEN Result("raised", NoEnvelope, r.exc, NoMethod)
    ELSE Result("envelope", r.env, NoException, NoMethod)

Range(seq) == {seq[k] : k \in DOMAIN seq}

Sources == {"kwargs", "query", "json", "form"}

Init ==
    /\ impersonate_user \in BOOLEAN
    /\ logged_parameter_sources = {}
    /\ api_version = PyNone
    /\ session \in {[user |-> u, data_user |-> u] : u \in ExistingUsers}
    /\ request \in Requests
    /\ \E db \in Databases :
          /\ translations = db.translations
          /\ error_codes = db.error_codes
    /\ db_pending = FALSE
    /\ http_status_code = 200
    /\ call = NoCall
    /\ ret = NoResult
    /\ trace = <<>>
    /\ args = NoArgs
    /\ obj = NoTree
    /\ keys = {}

\* the endpoint has served no call yet
Ready == call = NoCall

\* what no call changes: the endpoint's configuration and the stored rows
Fixed ==
    UNCHANGED <<impersonate_user, request, translations, error_codes, args, obj, keys>>

\* run(*args, **kwargs) with the resolved handler behaving as `outcome`
run(kwargs, outcome) ==
    /\ Fixed
    /\ LET imp == IF impersonate_user THEN impersonate
                  ELSE [ok |-> TRUE, session |-> session, ev |-> <<>>]
           got == IF kwargs # Absent /\ kwargs # PyNone
                  THEN [version |-> kwargs, ev |-> <<>>]
                  ELSE try_get_api_version_from_query_and_body
           requested == got.version
           found == get_method_by_api_version(requested)
           head == <<"START">> \o imp.ev
           resolve == head \o <<"kwargs">> \o got.ev
       IN  IF ~imp.ok
           THEN LET r0 == respond_with_code("", "None", 403, "Forbidden", NoException, "",
                                           EmptyDict)
                IN  \E r \in {r0} :
                    /\ ret' = Outcome(r)
                    /\ trace' = head \o <<"forbidden">> \o r.ev
                    /\ call' = [op |-> "run", caller |-> session.user, kwargs |-> kwargs,
                                version |-> PyNone, handler |-> "", outcome |-> NoOutcome]
                    /\ http_status_code' = r.http
                    /\ logged_parameter_sources' =
                           logged_parameter_sources \cup (Range(head) \cap Sources)
                    /\ UNCHANGED <<session, api_version, db_pending>>
           ELSE IF requested # PyNone /\ found.method = NoMethod
           THEN LET r0 == respond_with_code("Invalid API Version '" \o Str(requested) \o "'",
                                           "None", 400, "InvalidVersion", NoException, "",
                                           EmptyDict)
                IN  \E r \in {r0} :
                    /\ ret' = Outcome(r)
                    /\ trace' = resolve \o <<"get_method", "invalid version">> \o r.ev
                    /\ call' = [op |-> "run", caller |-> session.user, kwargs |-> kwargs,
                                version |-> requested, handler |-> "",
                                outcome |-> NoOutcome]
                    /\ http_status_code' = r.http
                    /\ session' = imp.session
                    /\ api_version' = requested
                    /\ logged_parameter_sources' =
                           logged_parameter_sources \cup (Range(resolve) \cap Sources)
                    /\ UNCHANGED db_pending
           ELSE LET name == IF requested # PyNone THEN found.method.name ELSE "default"
                    x0 == execute(name, outcome)
                IN  \E x \in {x0} :
                    /\ ret' = Outcome(x)
                    /\ trace' = resolve
                           \o (IF requested # PyNone THEN <<"get_method">> ELSE <<>>)
                           \o (IF found.warned THEN <<"multiple methods">> ELSE <<>>)
                           \o x.ev \o (IF x.raised THEN <<>> ELSE <<"END">>)
                    /\ call' = [op |-> "run", caller |-> session.user, kwargs |-> kwargs,
                                version |-> requested, handler |-> name,
                                outcome |-> outcome]
                    /\ http_status_code' = x.http
                    /\ db_pending' = x.db_pending
                    /\ session' = imp.session
                    /\ api_version' = requested
                    /\ logged_parameter_sources' =
                           logged_parameter_sources \cup (Range(resolve) \cap Sources)

\* a call of run
Run ==
    /\ Ready
    /\ \E kwargs \in KwargVersions : \E outcome \in Outcomes : run(kwargs, outcome)

\* a call of execute(action) on its own, the action behaving as some outcome
Execute ==
    /\ Ready
    /\ Fixed
    /\ \E outcome \in Outcomes : \E x \in {execute("action", outcome)} :
           /\ ret' = Outcome(x)
           /\ trace' = x.ev
           /\ call' = [op |-> "execute", caller |-> session.user, kwargs |-> Absent,
                       version |-> PyNone, handler |-> "action", outcome |-> outcome]
           /\ http_status_code' = x.http
           /\ db_pending' = x.db_pending
           /\ UNCHANGED <<session, api_version, logged_parameter_sources>>

\* a call of get_method_by_api_version(version) on its own
GetMethodByApiVersion ==
    /\ Ready
    /\ Fixed
    /\ \E version \in Versions : \E found \in {get_method_by_api_version(version)} :
           /\ ret' = Result(IF found.method = NoMethod THEN "None" ELSE "method",
                            NoEnvelope, NoException, found.method)
           /\ trace' = <<"get_method">>
                           \o (IF found.warned THEN <<"multiple methods">> ELSE <<>>)
           /\ call' = [op |-> "get_method_by_api_version", caller |-> session.user,
                       kwargs |-> Absent, version |-> version, handler |-> "",
                       outcome |-> NoOutcome]
           /\ UNCHANGED <<session, api_version, logged_parameter_sources, db_pending,
                          http_status_code>>

Next ==
    \/ Run
    \/ Execute
    \/ GetMethodByApiVersion

Spec == Init /\ [][Next]_vars

-----------------------------------------------------------------------------
(* What the claims read off a finished call *)

\* the user_id the request carries: the query string's, else the JSON body's
QueryUserId == request.args.user_id

BodyUserId == IF request.data.raw = "json" THEN request.data.obj.user_id ELSE Absent

UserIdPresent == QueryUserId # Absent \/ BodyUserId # Absent

TargetUser ==
    IF QueryUserId \notin {Absent, PyStr("")} THEN QueryUserId.s
    ELSE IF BodyUserId # Absent THEN BodyUserId.s
    ELSE ""

IsElevated(user) == "System Manager" \in get_roles(user)

Did(event) == event \in Range(trace)

RanHandler == call.handler # ""

ReturnedEnvelope(code, errorCode) ==
    ret.kind = "envelope" /\ ret.env.code = code /\ ret.env.errorCode = errorCode

\* run ended at the impersonation check, with what respond_with_code gave for 403
Forbidden403 ==
    /\ Did("forbidden")
    /\ ~RanHandler
    /\ ~Did("kwargs")
    /\ ret.kind = "envelope" => ReturnedEnvelope(403, "Forbidden")

-----------------------------------------------------------------------------
(* C1: with impersonation enabled and a user_id in the request, run ends   *)
(* at the impersonation check with the 403 "Forbidden" response, running   *)
(* no handler, exactly when the target user does not exist or the caller   *)
(* is neither the target nor a System Manager; a caller who is the target  *)
(* proceeds with no role check, and a System Manager proceeds.             *)
C1_ImpersonationForbiddenExactly ==
    (call.op = "run" /\ impersonate_user /\ UserIdPresent) =>
        LET denied == \/ ~UserExists(TargetUser)
                      \/ call.caller # TargetUser /\ ~IsElevated(call.caller)
        IN  /\ denied => Forbidden403
            /\ ~denied => ~Did("forbidden") /\ Did("kwargs")
            /\ (~denied /\ call.caller = TargetUser) => ~Did("get_roles")

\* a caller without the role was refused another existing user, with the envelope
C1_Witness ==
    /\ call.op = "run" /\ impersonate_user
    /\ call.caller = "ann" /\ TargetUser = "hub"
    /\ ReturnedEnvelope(403, "Forbidden")
    /\ ~RanHandler

(* C2 as claimed: with impersonation enabled and no user_id in the query   *)
(* string or the body, the check is a no-op success: no 403, the identity  *)
(* unchanged, and the request proceeds to version resolution.              *)
C2_AbsentUserIdIsNoOp ==
    (call.op = "run" /\ impersonate_user /\ ~UserIdPresent) =>
        /\ ~Did("forbidden")
        /\ session.user = call.caller
        /\ Did("kwargs")

(* C2 amended: with impersonation enabled and no user_id in the query      *)
(* string or the body, run ends at the impersonation check with the 403    *)
(* "Forbidden" response, the identity unchanged and no handler run.        *)
C2_AbsentUserIdIsForbidden ==
    (call.op = "run" /\ impersonate_user /\ ~UserIdPresent) =>
        /\ Forbidden403
        /\ session = [user |-> call.caller, data_user |-> call.caller]

C2_Witness ==
    /\ call.op = "run" /\ impersonate_user /\ ~UserIdPresent
    /\ ReturnedEnvelope(403, "Forbidden")
    /\ request.args.api_version # Absent

(* C3: a run changes the session identity only when impersonation is       *)
(* enabled and the target exists, differs from the caller, and the caller  *)
(* is a System Manager; then the session user and the user in the session  *)
(* data are both the target. In every other outcome, and in every other    *)
(* call, both are the caller's, as before.                                 *)
C3_IdentityFrame ==
    call.op # "" =>
        LET switched == /\ call.op = "run"
                        /\ impersonate_user
                        /\ UserExists(TargetUser)
                        /\ TargetUser # call.caller
                        /\ IsElevated(call.caller)
            who == IF switched THEN TargetUser ELSE call.caller
        IN  session = [user |-> who, data_user |-> who]

\* the System Manager runs a handler as another user
C3_Witness ==
    /\ call.op = "run" /\ impersonate_user
    /\ call.caller = "hub" /\ TargetUser = "ann"
    /\ session = [user |-> "ann", data_user |-> "ann"]
    /\ RanHandler

-----------------------------------------------------------------------------
(* Version sources, as the claims name them *)

Supplies(v) == v \notin {Absent, PyNone}

QueryVersion == request.args.api_version

JsonIsEmpty == request.data.raw # "json" \/ request.data.obj.n = 0

JsonVersion == IF request.data.raw = "json" THEN request.data.obj.api_version ELSE Absent

FormVersion == request.form.api_version

ReachedResolution == call.op = "run" /\ Did("kwargs")

\* the parameter sources read after the keyword arguments were looked at
Consulted ==
    LET k == CHOOSE i \in DOMAIN trace : trace[i] = "kwargs"
    IN  {trace[i] : i \in {j \in DOMAIN trace : j > k}} \cap Sources

\* the first version in the order call argument, query string, JSON body, form body
FirstSupplied ==
    IF Supplies(call.kwargs) THEN call.kwargs
    ELSE IF Supplies(QueryVersion) THEN QueryVersion
    ELSE IF Supplies(JsonVersion) THEN JsonVersion
    ELSE IF Supplies(FormVersion) THEN FormVersion
    ELSE PyNone

\* the same, the form body counting only when the JSON body is empty
FirstSuppliedFormIfJsonEmpty ==
    IF Supplies(call.kwargs) THEN call.kwargs
    ELSE IF Supplies(QueryVersion) THEN QueryVersion
    ELSE IF Supplies(JsonVersion) THEN JsonVersion
    ELSE IF JsonIsEmpty /\ Supplies(FormVersion) THEN FormVersion
    ELSE PyNone

(* C4 as claimed: the requested version is the first one supplied in the   *)
(* order call argument, query string, JSON body, form body, and each       *)
(* source is consulted whenever every source before it lacks a version:    *)
(* the form body whenever the JSON body has no api_version.                *)
C4_FormConsultedWheneverJsonLacksVersion ==
    ReachedResolution =>
        /\ api_version = FirstSupplied
        /\ "query" \in Consulted <=> ~Supplies(call.kwargs)
        /\ "json" \in Consulted <=> ~Supplies(call.kwargs) /\ ~Supplies(QueryVersion)
        /\ "form" \in Consulted <=>
              ~Supplies(call.kwargs) /\ ~Supplies(QueryVersion) /\ ~Supplies(JsonVersion)

(* C4 amended: the same order, but the form body is consulted only when    *)
(* the call argument and the query string give no version and the JSON     *)
(* body is empty (no body, not JSON, or an empty object); a non-empty JSON *)
(* body without api_version ends the search with no version.               *)
C4_FormConsultedOnlyIfJsonEmpty ==
    ReachedResolution =>
        /\ api_version = FirstSuppliedFormIfJsonEmpty
        /\ "query" \in Consulted <=> ~Supplies(call.kwargs)
        /\ "json" \in Consulted <=> ~Supplies(call.kwargs) /\ ~Supplies(QueryVersion)
        /\ "form" \in Consulted <=>
              ~Supplies(call.kwargs) /\ ~Supplies(QueryVersion) /\ JsonIsEmpty

\* a form version is passed over behind a JSON body that has other keys only
C4_Witness ==
    /\ ReachedResolution
    /\ ~Supplies(call.kwargs) /\ ~Supplies(QueryVersion)
    /\ ~JsonIsEmpty /\ ~Supplies(JsonVersion) /\ Supplies(FormVersion)
    /\ api_version = PyNone
    /\ "form" \notin Consulted

-----------------------------------------------------------------------------
(* Invalid version *)

MatchesVersion(m, version) == m.version # Absent /\ Str(m.version) = Str(version)

NoMethodMatches(version) == \A k \in DOMAIN members : ~MatchesVersion(members[k], version)

InvalidVersionCase ==
    /\ ReachedResolution
    /\ FirstSuppliedFormIfJsonEmpty # PyNone
    /\ NoMethodMatches(FirstSuppliedFormIfJsonEmpty)

InvalidVersionMessage == "Invalid API Version '" \o Str(FirstSuppliedFormIfJsonEmpty) \o "'"

\* the language of the request, "en" when the header names none the site supports
RequestLanguage == IF request.lang \in {"en", "ar"} THEN request.lang ELSE "en"

StoredTranslations(text) ==
    {r \in translations : r.source_text = text /\ r.language = RequestLanguage}

(* C5 as claimed: a requested version no tagged method matches gives the   *)
(* envelope code 400, errorCode "InvalidVersion", with a message naming    *)
(* the requested version, and no handler runs.                             *)
C5_InvalidVersionMessageNamesVersion ==
    InvalidVersionCase =>
        /\ ReturnedEnvelope(400, "InvalidVersion")
        /\ ret.env.message = InvalidVersionMessage
        /\ ~RanHandler

(* C5 amended: a requested version no tagged method matches runs no        *)
(* handler, and the envelope run returns has code 400, errorCode           *)
(* "InvalidVersion" and a developer_message naming the requested version;  *)
(* its message names the requested version unless the Translation rows     *)
(* hold a translation of "InvalidVersion" for the request language, which  *)
(* is then the message.                                                    *)
C5_InvalidVersionEnvelope ==
    InvalidVersionCase =>
        /\ ~RanHandler
        /\ Did("invalid version")
        /\ ret.kind = "envelope" =>
              /\ ReturnedEnvelope(400, "InvalidVersion")
              /\ ret.env.developer_message = InvalidVersionMessage
              /\ IF StoredTranslations("InvalidVersion") = {}
                 THEN ret.env.message = InvalidVersionMessage
                 ELSE \E r \in StoredTranslations("InvalidVersion") :
                          ret.env.message = Render(r.translated_text, EmptyDict)

\* the translated message replaces the one naming the version
C5_Witness ==
    /\ InvalidVersionCase
    /\ ReturnedEnvelope(400, "InvalidVersion")
    /\ ret.env.message = "isdar ghayr salih"
    /\ ret.env.developer_message = "Invalid API Version '9'"

-----------------------------------------------------------------------------
(* Execution *)

HandlerNames == {members[k].name : k \in DOMAIN members} \cup {"action"}

\* the places in the trace where a handler was called
HandlerCalls == {k \in DOMAIN trace : \E n \in HandlerNames : trace[k] = "handler " \o n}

\* run went past both the impersonation check and version resolution
Executed == call.op = "run" /\ ~Did("forbidden") /\ ~Did("invalid version")

\* what run does before it calls a handler
BeforeExecution ==
    {"START", "query", "json", "form", "exists", "get_roles", "set_user", "kwargs",
     "get_method", "multiple methods"}

\* one handler, called once, after the checks, its failure caught by execute
OneHandlerInBoundary ==
    /\ Cardinality(HandlerCalls) = 1
    /\ \A k \in HandlerCalls :
          /\ trace[k] = "handler " \o call.handler
          /\ \A j \in 1..(k - 1) : trace[j] \in BeforeExecution
          /\ impersonate_user => \E j \in 1..(k - 1) : trace[j] = "exists"
          /\ \E j \in 1..(k - 1) : trace[j] = "kwargs"
          /\ call.outcome.raises => trace[k + 1] = "rollback"
    /\ call.handler # "default" =>
          \E k \in DOMAIN members :
              /\ members[k].name = call.handler
              /\ MatchesVersion(members[k], api_version)
              /\ Did("get_method")

NoSourceSuppliesVersion ==
    /\ ~Supplies(call.kwargs)
    /\ ~Supplies(QueryVersion)
    /\ ~Supplies(JsonVersion)
    /\ ~Supplies(FormVersion)

PassesEnvelopeThrough ==
    ~call.outcome.raises => ret = Result("envelope", call.outcome.env, NoException, NoMethod)

(* C6 as claimed: a run that does not short-circuit executes exactly one   *)
(* handler once, in the execution boundary, after the impersonation check  *)
(* and version resolution: the default handler iff no source supplied a    *)
(* version, else the method resolved for the requested version; and it     *)
(* returns the envelope of a handler that returns, unchanged.              *)
C6_DefaultIffNoSourceSuppliesVersion ==
    Executed =>
        /\ OneHandlerInBoundary
        /\ call.handler = "default" <=> NoSourceSuppliesVersion
        /\ PassesEnvelopeThrough

(* C6 amended: the same, the default handler being executed iff version    *)
(* resolution finds no version: none in the call argument, the query       *)
(* string and the JSON body, and none in the form body when the JSON body  *)
(* is empty (a form version behind a non-empty JSON body is not seen).     *)
C6_DefaultIffNoVersionResolved ==
    Executed =>
        /\ OneHandlerInBoundary
        /\ call.handler = "default" <=> FirstSuppliedFormIfJsonEmpty = PyNone
        /\ PassesEnvelopeThrough

\* the default handler's envelope comes back although the form names version 1
C6_Witness ==
    /\ Executed
    /\ call.handler = "default"
    /\ Supplies(FormVersion) /\ ~JsonIsEmpty
    /\ ~call.outcome.raises
    /\ ReturnedEnvelope(200, "")
    /\ ret.env.message = "Saved"

-----------------------------------------------------------------------------
(* C7: get_method_by_api_version finds no method exactly when no tagged    *)
(* method's tag has the string form of the requested version (so "1"       *)
(* finds the method tagged with the integer 1); with several matches it    *)
(* still returns exactly one, the first match in enumeration order, which  *)
(* is the order of the method names, and logs the multiplicity.            *)
C7_FirstMatchByName ==
    call.op = "get_method_by_api_version" =>
        LET matches == {k \in DOMAIN members : MatchesVersion(members[k], call.version)}
        IN  /\ ret.kind = "None" <=> matches = {}
            /\ ret.kind = "None" => ret.method = NoMethod
            /\ matches # {} =>
                  /\ ret.kind = "method"
                  /\ \E k \in matches : ret.method = members[k]
                  /\ \A k \in matches :
                        NameRank(ret.method.name) <= NameRank(members[k].name)
            /\ Did("multiple methods") <=> Cardinality(matches) > 1

\* "2" matches the methods tagged 2 and "2"; the one whose name sorts first wins
C7_Witness ==
    /\ call.op = "get_method_by_api_version"
    /\ call.version = PyStr("2")
    /\ ret.method = Method("fetch_v2", PyStr("2"))
    /\ Did("multiple methods")

\* "1" finds the method tagged with the integer 1
C7_WitnessIntTag ==
    /\ call.op = "get_method_by_api_version"
    /\ call.version = PyStr("1")
    /\ ret.method = Method("get_v1", PyInt(1))

-----------------------------------------------------------------------------
(* The execution boundary's error envelopes *)

HandlerRaised == call.op \in {"run", "execute"} /\ RanHandler /\ call.outcome.raises

Raised == call.outcome.exc

\* the taxonomy's rows, the first one the exception belongs to
TaxonomyRow(e) ==
    IF "frappe.ValidationError" \in e.kinds THEN <<417, e.name>>
    ELSE IF "NotFound" \in e.kinds THEN <<404, e.name>>
    ELSE IF "BadRequest" \in e.kinds THEN <<400, e.name>>
    ELSE IF "frappe.PermissionError" \in e.kinds \/ "PermissionError" \in e.kinds
    THEN <<403, "Forbidden">>
    ELSE IF "POSException" \in e.kinds THEN <<417, e.name>>
    ELSE <<500, e.name>>

(* C8: the envelope execute returns for an exception the handler raised    *)
(* has the status and errorCode of the first kind the exception belongs    *)
(* to, in the order validation failure 417, not found 404, malformed       *)
(* request 400, permission denied 403 "Forbidden", business exception 417, *)
(* anything else 500; the errorCode is the exception's kind name except    *)
(* for permission denied.                                                  *)
C8_FirstMatchingKind ==
    (HandlerRaised /\ ret.kind = "envelope") =>
        <<ret.env.code, ret.env.errorCode>> = TaxonomyRow(Raised)

\* a business exception that is also an OS permission error gets the 403 row
C8_Witness ==
    /\ HandlerRaised
    /\ Raised.kinds = {"PermissionError", "POSException"}
    /\ ReturnedEnvelope(403, "Forbidden")

\* a business exception no earlier row catches
BusinessExceptionRaised ==
    /\ HandlerRaised
    /\ "POSException" \in Raised.kinds
    /\ Raised.kinds \cap {"frappe.ValidationError", "NotFound", "BadRequest",
                          "frappe.PermissionError", "PermissionError"} = {}

StoredErrorCodes(name) == {r \in error_codes : r.name = name}

(* C9 as claimed: for a business exception (POSException) the envelope has *)
(* status 417, errorCode the kind name, and message the stringified        *)
(* exception.                                                              *)
C9_MessageIsStringifiedException ==
    BusinessExceptionRaised =>
        /\ ReturnedEnvelope(417, Raised.name)
        /\ ret.env.message = Raised.msg

(* C9 amended: for a business exception (POSException) the envelope has    *)
(* status 417, errorCode the kind name, and developer_message the          *)
(* stringified exception; its message is the translation of the kind name  *)
(* for the request language if one is stored, else the error-code          *)
(* registry's message for the kind name if it has an entry, else           *)
(* "Server Error (<kind name>)".                                           *)
C9_DeveloperMessageIsStringifiedException ==
    (BusinessExceptionRaised /\ ret.kind = "envelope") =>
        /\ ReturnedEnvelope(417, Raised.name)
        /\ ret.env.developer_message = Raised.msg
        /\ IF StoredTranslations(Raised.name) # {}
           THEN \E r \in StoredTranslations(Raised.name) :
                    ret.env.message = Render(r.translated_text, EmptyDict)
           ELSE IF StoredErrorCodes(Raised.name) # {}
           THEN \E r \in StoredErrorCodes(Raised.name) : ret.env.message = r.message
           ELSE ret.env.message = "Server Error (" \o Raised.name \o ")"

\* the registry's message in the envelope, the exception's text beside it
C9_Witness ==
    /\ BusinessExceptionRaised
    /\ ReturnedEnvelope(417, "POSException")
    /\ ret.env.message = "POS operation failed"
    /\ ret.env.developer_message = "Shift is closed"

\* the rollback comes before the error envelope is built
RollbackFirst ==
    \E i \in DOMAIN trace :
        /\ trace[i] = "rollback"
        /\ \A j \in DOMAIN trace :
              trace[j] \in {"get_value Error Code", "translate", "envelope"} => i < j

(* C10: for every exception the handler raises, execute rolls the pending  *)
(* transaction back before it builds the error envelope and then returns   *)
(* an envelope: no exception escapes execute, not even one raised while    *)
(* the envelope is built.                                                  *)
C10_NoExceptionEscapesExecute ==
    HandlerRaised =>
        /\ RollbackFirst
        /\ ~db_pending
        /\ ret.kind = "envelope"

-----------------------------------------------------------------------------
(* The parameter-validation helpers of ApiEndpoint *)

\* an entry of a dictionary, which keeps its entries in insertion order
Item(k, v) == [k |-> k, v |-> v]

\* params[p], Absent when p is not in params
Lookup(params, p) ==
    LET hits == {n \in DOMAIN params : params[n].k = p}
    IN  IF hits = {} THEN Absent ELSE params[CHOOSE n \in hits : TRUE].v

\* sep.join(names)
RECURSIVE Join(_, _)
Join(names, sep) ==
    IF names = <<>> THEN ""
    ELSE IF Len(names) = 1 THEN names[1]
    ELSE names[1] \o sep \o Join(Tail(names), sep)

\* f"{names}": the repr of a list of strings
ListRepr(names) == "[" \o Join([n \in DOMAIN names |-> "'" \o names[n] \o "'"], ", ") \o "]"

\* what a helper returns: (True, None), (False, envelope), or an exception raised
Passing ==
    [raised |-> FALSE, exc |-> NoException, ok |-> TRUE, env |-> NoEnvelope,
     responded |-> FALSE, http |-> 0]

Raising(e) ==
    [raised |-> TRUE, exc |-> e, ok |-> FALSE, env |-> NoEnvelope,
     responded |-> FALSE, http |-> 0]

\* return False, self.respond_with_code(...)
Failing(r) ==
    [raised |-> r.raised, exc |-> r.exc, ok |-> FALSE, env |-> r.env,
     responded |-> TRUE, http |-> r.http]

check_tuple_parameters(params, param_tuple) ==
    \E n \in DOMAIN param_tuple : Get(Lookup(params, param_tuple[n])) # PyNone

validate_required_parameters(params, required_parameter_names, alternative_parameters) ==
    LET missing_parameters ==
            SelectSeq(required_parameter_names, LAMBDA p : Get(Lookup(params, p)) = PyNone)
        missing_alt_parameters ==
            SelectSeq(alternative_parameters, LAMBDA t : ~check_tuple_parameters(params, t))
        tuples == [n \in DOMAIN missing_alt_parameters |->
                      Join(missing_alt_parameters[n], " | ")]
        message ==
            (IF missing_parameters # <<>>
             THEN "Required parameters are missing: " \o Join(missing_parameters, ", ") \o ". "
             ELSE "")
            \o (IF missing_alt_parameters # <<>>
                THEN "Specify at least one of the following: " \o Join(tuples, ", ")
                ELSE "")
    IN  IF alternative_parameters = <<>> /\ required_parameter_names = <<>>
        THEN Raising(Exc("Exception", {}, "Must send one of theses lists"))
        ELSE IF missing_alt_parameters # <<>> \/ missing_parameters # <<>>
        THEN Failing(respond_with_code(message, "None", 400, "ArgumentNotFound",
                                       NoException, "", EmptyDict))
        ELSE Passing

\* v in ['0', '0.0', 0, 0.0] with numbers compared by value only
zero_when_a_number(v) == v.t \in {"int", "float"} /\ v.i = 0

\* v in ['0', '0.0', 0, 0.0]: == compares False and 0 equal
in_zero_values(v) ==
    \/ v.t = "str" /\ v.s \in {"0", "0.0"}
    \/ v.t \in {"int", "float", "bool"} /\ v.i = 0

\* the loop of validate_required_parameters_has_vales over the names left
RECURSIVE missing_values_loop(_, _, _)
missing_values_loop(params, names, missing_values) ==
    IF names = <<>> THEN [returned |-> FALSE, missing_values |-> missing_values]
    ELSE LET v == Get(Lookup(params, Head(names)))
         IN  IF in_zero_values(v)
             THEN [returned |-> TRUE, missing_values |-> missing_values]
             ELSE missing_values_loop(params, Tail(names),
                      IF ~Truthy(v) THEN Append(missing_values, Head(names))
                      ELSE missing_values)

validate_required_parameters_has_vales(params, required_parameters) ==
    LET loop == missing_values_loop(params, required_parameters, <<>>)
    IN  IF loop.returned THEN Passing
        ELSE IF loop.missing_values # <<>>
        THEN Failing(respond_with_code(
                 "These arguments " \o ListRepr(loop.missing_values)
                     \o " values can't be empty",
                 "None", 400, "ValuesNotFound", NoException, "", EmptyDict))
        ELSE Passing

\* isinstance(v, input_type): a bool is an int too
isinstance(v, input_type) ==
    \/ (IF v.t = "none" THEN "NoneType" ELSE v.t) \in input_type
    \/ v.t = "bool" /\ "int" \in input_type

\* an unsigned decimal numeral: digits, with at most one point among them
IsDecimal(x) ==
    \/ IsDigit(x)
    \/ \E k \in 1..Len(x) :
          /\ SubSeq(x, k, k) = "."
          /\ LET l == SubSeq(x, 1, k - 1)
                 r == SubSeq(x, k + 1, Len(x))
             IN  /\ l = "" \/ IsDigit(l)
                 /\ r = "" \/ IsDigit(r)
                 /\ ~(l = "" /\ r = "")

IsSigned(x) == x # "" /\ SubSeq(x, 1, 1) \in {"-", "+"}

Unsigned(x) == IF IsSigned(x) THEN SubSeq(x, 2, Len(x)) ELSE x

\* float(v): the sign of the number, ValueError for a string that is no number,
\* TypeError for a value that is neither a number nor a string
float(v) ==
    CASE v.t \in {"int", "float", "bool"} ->
            [raised |-> FALSE, exc |-> NoException, negative |-> v.i < 0]
      [] v.t = "str" ->
            LET x == RStrip(v.s)
                nonzero == \E k \in 1..Len(x) :
                               SubSeq(x, k, k) \in {Digit[d] : d \in 2..10}
            IN  IF IsDecimal(Unsigned(x))
                THEN [raised |-> FALSE, exc |-> NoException,
                      negative |-> SubSeq(x, 1, 1) = "-" /\ nonzero]
                ELSE IF Unsigned(x) \in {"inf", "nan"}
                THEN [raised |-> FALSE, exc |-> NoException,
                      negative |-> x = "-inf"]
                ELSE [raised |-> TRUE,
                      exc |-> Exc("ValueError", {}, "could not convert string to float"),
                      negative |-> FALSE]
      [] OTHER ->
            [raised |-> TRUE,
             exc |-> Exc("TypeError", {}, "float() argument must be a string or a number"),
             negative |-> FALSE]

\* validate_input_type's loop without the `if v:` test
RECURSIVE wrong_type_values_of_every_value(_, _, _)
wrong_type_values_of_every_value(items, input_type, check_digit) ==
    IF items = <<>> THEN <<>>
    ELSE LET k == Head(items).k
             v == Head(items).v
         IN  (IF ~isinstance(v, input_type) THEN <<k>> ELSE <<>>)
             \o (IF "str" \in input_type /\ check_digit /\ v.t = "str"
                    /\ float(v).raised
                 THEN <<k>> ELSE <<>>)
             \o wrong_type_values_of_every_value(Tail(items), input_type, check_digit)

\* the loop of validate_input_type over the entries left
RECURSIVE wrong_type_values(_, _, _)
wrong_type_values(items, input_type, check_digit) ==
    IF items = <<>> THEN <<>>
    ELSE LET k == Head(items).k
             v == Head(items).v
         IN  (IF Truthy(v)
              THEN (IF ~isinstance(v, input_type) THEN <<k>> ELSE <<>>)
                   \o (IF "str" \in input_type /\ check_digit /\ v.t = "str"
                          /\ float(v).raised
                       THEN <<k>> ELSE <<>>)
              ELSE <<>>)
             \o wrong_type_values(Tail(items), input_type, check_digit)

validate_input_type(input_params, input_type, check_digit) ==
    LET wrong == wrong_type_values(input_params, input_type, check_digit)
    IN  IF wrong # <<>>
        THEN Failing(respond_with_code("", "None", 400, "BadRequest", NoException,
                         ListRepr(wrong) \o " have wrong input type", EmptyDict))
        ELSE Passing

\* the loop of validate_positive_value over the entries left: the keys of the
\* negative values, or the exception float(v) raised
RECURSIVE negative_value(_)
negative_value(items) ==
    IF items = <<>> THEN [raised |-> FALSE, exc |-> NoException, keys |-> <<>>]
    ELSE LET k == Head(items).k
             v == Head(items).v
             rest == negative_value(Tail(items))
         IN  IF Truthy(v) /\ float(v).raised
             THEN [raised |-> TRUE, exc |-> float(v).exc, keys |-> <<>>]
             ELSE IF rest.raised THEN rest
             ELSE [raised |-> FALSE, exc |-> NoException,
                   keys |-> (IF Truthy(v) /\ float(v).negative THEN <<k>> ELSE <<>>)
                               \o rest.keys]

validate_positive_value(input_params) ==
    LET loop == negative_value(input_params)
    IN  IF loop.raised THEN Raising(loop.exc)
        ELSE IF loop.keys # <<>>
        THEN Failing(respond_with_code("", "None", 400, "BadRequest", NoException,
                         ListRepr(loop.keys) \o " value shouldn't be negative", EmptyDict))
        ELSE Passing

-----------------------------------------------------------------------------
(* The helpers' inputs, and one call of a helper on an endpoint instance *)

ParamValues ==
    {PyNone, PyInt(0), PyInt(5), PyInt(-2), PyFloat(0), PyFloat(-1), PyBool(FALSE),
     PyBool(TRUE), PyStr(""), PyStr("0"), PyStr("0.0"), PyStr("7"), PyStr("-3"),
     PyStr("abc"), PyList(0), PyList(1)}

\* the parameters of a request, as the handler got them from the body or query string
ParamDicts ==
    {<<>>}
        \cup {<<Item("qty", v)>> : v \in ParamValues}
        \cup {<<Item("qty", v), Item("rate", w)>> : v \in ParamValues, w \in ParamValues}

RequiredLists == {<<>>, <<"qty">>, <<"qty", "rate">>, <<"rate", "qty">>, <<"rate", "tax">>}

AlternativeLists == {<<>>, << <<"qty", "rate">> >>, << <<"tax", "rate">>, <<"qty">> >>}

InputTypes == {{"str"}, {"int", "float"}, {"int", "float", "str"}, {"list"}}

SubDicts == {EmptyDict, [doctype |-> "Invoice"]}

\* a request of which only the Accept-Language header matters
HelperRequests ==
    {[args |-> Args(Absent, Absent),
      data |-> [raw |-> "empty", obj |-> Dict(0, Absent, Absent)],
      form |-> Dict(0, Absent, Absent),
      lang |-> l] : l \in {"ar", "en", "fr"}}

InitHelpers ==
    /\ impersonate_user = FALSE
    /\ logged_parameter_sources = {}
    /\ api_version = PyNone
    /\ session = [user |-> "ann", data_user |-> "ann"]
    /\ request \in HelperRequests
    /\ \E db \in Databases :
          /\ translations = db.translations
          /\ error_codes = db.error_codes
    /\ db_pending = FALSE
    /\ http_status_code = 200
    /\ call = NoCall
    /\ ret = NoResult
    /\ trace = <<>>
    /\ args = NoArgs
    /\ obj = NoTree
    /\ keys = {}

\* the helper `op` was called with the arguments a and came to r
Called(op, a, r) ==
    /\ call' = [op |-> op, caller |-> session.user, kwargs |-> Absent, version |-> PyNone,
                handler |-> "", outcome |-> NoOutcome]
    /\ args' = a
    /\ ret' = IF r.raised THEN Result("raised", NoEnvelope, r.exc, NoMethod)
              ELSE IF r.ok THEN Result("None", NoEnvelope, NoException, NoMethod)
              ELSE Result("envelope", r.env, NoException, NoMethod)
    /\ http_status_code' = IF r.responded THEN r.http ELSE http_status_code
    /\ trace' = IF r.responded THEN <<"respond_with_code">> ELSE <<>>
    /\ UNCHANGED <<impersonate_user, logged_parameter_sources, api_version, session,
                   request, translations, error_codes, db_pending, obj, keys>>

\* a call of respond_with_code(message=, code=, error_code=, sub_dict=)
RespondWithCode ==
    /\ Ready
    /\ \E message \in {"", "Saved"}, code \in {0, 200, 403},
          error_code \in {"", "Forbidden", "NotFound", "InvalidVersion", "MandatoryError"},
          sub_dict \in SubDicts :
          \E r \in {respond_with_code(message, "None", code, error_code, NoException, "",
                                      sub_dict)} :
              Called("respond_with_code",
                     [op |-> "respond_with_code", message |-> message, code |-> code,
                      error_code |-> error_code, sub_dict |-> sub_dict],
                     Failing(r))

ValidateRequiredParameters ==
    /\ Ready
    /\ \E params \in ParamDicts, required \in RequiredLists, alternative \in AlternativeLists :
          \E r \in {validate_required_parameters(params, required, alternative)} :
              Called("validate_required_parameters",
                     [op |-> "validate_required_parameters", params |-> params,
                      required_parameter_names |-> required,
                      alternative_parameters |-> alternative],
                     r)

ValidateRequiredParametersHasVales ==
    /\ Ready
    /\ \E params \in ParamDicts, required \in RequiredLists :
          \E r \in {validate_required_parameters_has_vales(params, required)} :
              Called("validate_required_parameters_has_vales",
                     [op |-> "validate_required_parameters_has_vales", params |-> params,
                      required_parameters |-> required],
                     r)

ValidateInputType ==
    /\ Ready
    /\ \E params \in ParamDicts, input_type \in InputTypes, check_digit \in BOOLEAN :
          \E r \in {validate_input_type(params, input_type, check_digit)} :
              Called("validate_input_type",
                     [op |-> "validate_input_type", params |-> params,
                      input_type |-> input_type, check_digit |-> check_digit],
                     r)

ValidatePositiveValue ==
    /\ Ready
    /\ \E params \in ParamDicts :
          \E r \in {validate_positive_value(params)} :
              Called("validate_positive_value",
                     [op |-> "validate_positive_value", params |-> params],
                     r)

NextHelpers ==
    \/ ValidatePositiveValue
    \/ ValidateRequiredParameters
    \/ ValidateRequiredParametersHasVales
    \/ ValidateInputType
    \/ RespondWithCode

SpecHelpers == InitHelpers /\ [][NextHelpers]_vars

-----------------------------------------------------------------------------
(* The fallback message of respond_with_code *)

\* respond_with_code got an error code, no message, and the registry has no entry
FallbackCase ==
    /\ call.op = "respond_with_code"
    /\ args.error_code # ""
    /\ args.message = ""
    /\ StoredErrorCodes(args.error_code) = {}

FallbackMessage == "Server Error (" \o args.error_code \o ")"

(* C11 as claimed: respond_with_code with an error code, no message and no *)
(* registry entry for the code returns an envelope whose message is        *)
(* "Server Error (<code>)".                                                *)
C11_FallbackMessageAlways ==
    (FallbackCase /\ ret.kind = "envelope") => ret.env.message = FallbackMessage

(* C11 amended: respond_with_code with an error code, no message and no    *)
(* registry entry for the code returns an envelope whose message is        *)
(* "Server Error (<code>)", unless the Translation rows hold a translation *)
(* of the code for the request language that, with sub_dict substituted,   *)
(* differs from the code: the message is then that translation.            *)
C11_FallbackMessageUnlessTranslated ==
    (FallbackCase /\ ret.kind = "envelope") =>
        LET texts == {Render(r.translated_text, args.sub_dict) :
                         r \in StoredTranslations(args.error_code)}
                     \ {args.error_code}
        IN  IF texts = {} THEN ret.env.message = FallbackMessage
            ELSE ret.env.message \in texts

\* respond_with_code(error_code="Forbidden", code=403) on a site with no rows
C11_Witness ==
    /\ FallbackCase
    /\ args.error_code = "Forbidden" /\ args.code = 403
    /\ translations = {}
    /\ ReturnedEnvelope(403, "Forbidden")
    /\ ret.env.message = "Server Error (Forbidden)"

-----------------------------------------------------------------------------
(* The helpers' verdicts *)

ValueOf(p) == Get(Lookup(args.params, p))

NumericZero(v) == v \in {PyInt(0), PyFloat(0)}

\* a value the zero test takes for zero: 0, 0.0, False, '0', '0.0'
ZeroValue(v) == v \in {PyInt(0), PyFloat(0), PyBool(FALSE), PyStr("0"), PyStr("0.0")}

Passed == ret.kind = "None"

\* the helper returned (False, envelope) with a 400 envelope whose
\* developer_message is the given text
Failed400(errorCode, text) ==
    /\ ReturnedEnvelope(400, errorCode)
    /\ ret.env.developer_message = text

\* the required names without a truthy value, in the order required
MissingOrFalsy ==
    SelectSeq(args.required_parameters, LAMBDA p : ~Truthy(ValueOf(p)))

CantBeEmpty == "These arguments " \o ListRepr(MissingOrFalsy) \o " values can't be empty"

(* C12 as claimed: validate_required_parameters_has_vales returns success  *)
(* as soon as a required value is numeric zero (0 or 0.0); with no numeric *)
(* zero it returns success iff every required name has a truthy value, and *)
(* otherwise the 400 envelope listing the names missing or falsy.          *)
C12_NumericZeroShortCircuits ==
    call.op = "validate_required_parameters_has_vales" =>
        LET names == args.required_parameters
        IN  IF \E n \in DOMAIN names : NumericZero(ValueOf(names[n])) THEN Passed
            ELSE IF MissingOrFalsy = <<>> THEN Passed
            ELSE Failed400("ValuesNotFound", CantBeEmpty)

(* C12 amended: validate_required_parameters_has_vales returns success as  *)
(* soon as a required value equals zero, which the numbers 0 and 0.0, the  *)
(* value False and the strings '0' and '0.0' do; with no such value it     *)
(* returns success iff every required name has a truthy value, and         *)
(* otherwise the 400 envelope listing the names missing or falsy.          *)
C12_ZeroValueShortCircuits ==
    call.op = "validate_required_parameters_has_vales" =>
        LET names == args.required_parameters
        IN  IF \E n \in DOMAIN names : ZeroValue(ValueOf(names[n])) THEN Passed
            ELSE IF MissingOrFalsy = <<>> THEN Passed
            ELSE /\ ~Passed
                 /\ ret.kind = "envelope" => Failed400("ValuesNotFound", CantBeEmpty)

\* a zero after a missing name: success, though the first name has no value
C12_Witness ==
    /\ call.op = "validate_required_parameters_has_vales"
    /\ args.required_parameters = <<"rate", "qty">>
    /\ ValueOf("rate") = PyNone
    /\ ValueOf("qty") = PyInt(0)
    /\ Passed

(* C13: the parameter-validation helpers never throw: each returns         *)
(* (True, None) or (False, a 400 envelope), also when the required list    *)
(* and the alternative groups are both empty and when a checked value is a *)
(* non-numeric string.                                                     *)
C13_HelpersNeverThrow ==
    call.op \in {"validate_required_parameters", "validate_required_parameters_has_vales",
                 "validate_input_type", "validate_positive_value"} =>
        \/ Passed
        \/ ret.kind = "envelope" /\ ret.env.code = 400

\* isinstance against the allowed types
OfAllowedType(v) ==
    \/ (IF v = PyNone THEN "NoneType" ELSE v.t) \in args.input_type
    \/ v.t = "bool" /\ "int" \in args.input_type

\* a string that float() does not take for a number, where that is checked
UnparsableString(v) ==
    /\ "str" \in args.input_type
    /\ args.check_digit
    /\ v.t = "str"
    /\ v.s \notin {"0", "0.0", "7", "-3"}

WrongKeys(checked(_)) ==
    LET wrong == SelectSeq(args.params,
                     LAMBDA e : checked(e.v) /\ (~OfAllowedType(e.v) \/ UnparsableString(e.v)))
    IN  [n \in DOMAIN wrong |-> wrong[n].k]

AnyValue(v) == TRUE

(* C14 as claimed: validate_input_type returns the 400 envelope listing    *)
(* exactly the keys whose value is not of an allowed type or, with strings *)
(* allowed and check_digit set, is a string that does not parse as a       *)
(* number, each once, and success iff there is none; this for every key,   *)
(* falsy values included.                                                  *)
C14_EveryKeyChecked ==
    call.op = "validate_input_type" =>
        IF WrongKeys(AnyValue) = <<>> THEN Passed
        ELSE Failed400("BadRequest", ListRepr(WrongKeys(AnyValue)) \o " have wrong input type")

(* C14 amended: validate_input_type checks only the keys whose value is    *)
(* truthy: it returns the 400 envelope listing exactly the keys whose      *)
(* truthy value is not of an allowed type or, with strings allowed and     *)
(* check_digit set, is a string that does not parse as a number, each      *)
(* once, and success iff there is none; a falsy value is never listed.     *)
C14_TruthyKeysChecked ==
    call.op = "validate_input_type" =>
        IF WrongKeys(Truthy) = <<>> THEN Passed
        ELSE /\ ~Passed
             /\ ret.kind = "envelope" =>
                    Failed400("BadRequest",
                              ListRepr(WrongKeys(Truthy)) \o " have wrong input type")

\* a zero that is not a string passes, a string that is no number is listed
C14_Witness ==
    /\ call.op = "validate_input_type"
    /\ args.input_type = {"str"} /\ args.check_digit
    /\ args.params = <<Item("qty", PyInt(0)), Item("rate", PyStr("abc"))>>
    /\ Failed400("BadRequest", "['rate'] have wrong input type")

-----------------------------------------------------------------------------
(* Translation of response trees (endpoints/utils/translation.py): a tree  *)
(* is a dictionary or list whose values are dictionaries, lists, strings   *)
(* and other values (numbers, None), which the walker does not visit.      *)

StrLeaf(x) == [kind |-> "str", s |-> x, items |-> <<>>]
OtherLeaf(x) == [kind |-> "other", s |-> x, items |-> <<>>]
DictNode(items) == [kind |-> "dict", s |-> "", items |-> items]
ListNode(values) ==
    [kind |-> "list", s |-> "", items |-> [n \in DOMAIN values |-> Item("", values[n])]]

\* filter_key = k if isinstance(k, str) else None: a list index is no key
filter_key(parent, k) == IF parent.kind = "dict" THEN PyStr(k) ELSE PyNone

\* the text of a stored translation as a plain string
RECURSIVE Text(_)
Text(tpl) ==
    IF tpl = <<>> THEN ""
    ELSE (IF Head(tpl).ph THEN "$" \o Head(tpl).s ELSE Head(tpl).s) \o Text(Tail(tpl))

\* an exclusions argument: None, or a list of keys
NoExclusions == [given |-> FALSE, names |-> {}]
Exclusions(names) == [given |-> TRUE, names |-> names]

\* self._should_exclude of both visitors
should_exclude(key, exclusions, inclusions) ==
    IF inclusions # {} THEN key \notin inclusions ELSE key \in exclusions

\* visit_dict with the exclusion test dropped
visit_dict_walks_excluded(key, exclusions, inclusions) == TRUE

\* visit_dict and visit_list of both visitors: whether to visit the items
visit_dict(key, exclusions, inclusions) ==
    ~(Truthy(key) /\ should_exclude(key.s, exclusions, inclusions))

\* _KeyExtractionVisitor.visit_str: the keys it adds for the string x
extraction_visit_str(key, x, exclusions, inclusions) ==
    IF Truthy(key) /\ should_exclude(key.s, exclusions, inclusions) THEN {}
    ELSE IF IsDigit(x) THEN {}
    ELSE {x}

\* _visit with a _KeyExtractionVisitor: the keys collected below v, reached by key k
RECURSIVE extraction_dispatch(_, _, _, _)
extraction_dispatch(k, v, exclusions, inclusions) ==
    CASE v.kind \in {"dict", "list"} ->
            IF visit_dict(k, exclusions, inclusions)
            THEN UNION {extraction_dispatch(filter_key(v, v.items[n].k), v.items[n].v,
                                            exclusions, inclusions) : n \in DOMAIN v.items}
            ELSE {}
      [] v.kind = "str" -> extraction_visit_str(k, RStrip(v.s), exclusions, inclusions)
      [] OTHER -> {}

\* _extract_translation_keys(obj, exclusions, inclusions)
_extract_translation_keys(o, exclusions, inclusions) ==
    extraction_dispatch(PyNone, o, exclusions, inclusions)

\* _translate_keys without the language in the query
translate_keys_of_any_language(ks, language) ==
    LET sources == {r.source_text : r \in translations} \cap ks
    IN  [x \in sources |->
            Text((CHOOSE r \in translations : r.source_text = x).translated_text)]

\* _translate_keys(keys, language): source_text -> translated_text of the rows the
\* query finds (the site holds at most one row for a source text and language)
_translate_keys(ks, language) ==
    LET rows == {r \in translations : r.source_text \in ks /\ r.language = language}
    IN  [x \in {r.source_text : r \in rows} |->
            Text((CHOOSE r \in rows : r.source_text = x).translated_text)]

\* _TranslationVisitor.visit_str: None, or the replacement for the string x
translation_visit_str(key, x, dictionary, exclusions, inclusions) ==
    IF Truthy(key) /\ should_exclude(key.s, exclusions, inclusions) THEN PyNone
    ELSE IF x \in DOMAIN dictionary /\ dictionary[x] # "" THEN PyStr(dictionary[x])
    ELSE PyStr(x)

\* _visit with a _TranslationVisitor: v after the walk, reached by key k
RECURSIVE translation_dispatch(_, _, _, _, _)
translation_dispatch(k, v, dictionary, exclusions, inclusions) ==
    CASE v.kind \in {"dict", "list"} ->
            IF visit_dict(k, exclusions, inclusions)
            THEN [v EXCEPT !.items =
                     [n \in DOMAIN v.items |->
                         Item(v.items[n].k,
                              translation_dispatch(filter_key(v, v.items[n].k), v.items[n].v,
                                                   dictionary, exclusions, inclusions))]]
            ELSE v
      [] v.kind = "str" ->
            LET new_v == translation_visit_str(k, RStrip(v.s), dictionary, exclusions,
                                               inclusions)
            IN  IF Truthy(new_v) /\ new_v.s # v.s THEN StrLeaf(new_v.s) ELSE v
      [] OTHER -> v

\* _translate(source, language, exclusions=, inclusions=) on a dictionary or list:
\* the keys extracted and the source after the call
_translate(o, language, exclusions, inclusions) ==
    LET excl == IF ~exclusions.given /\ inclusions = {} THEN {"id", "name"}
                ELSE exclusions.names
        lang0 == IF language = "" THEN (IF has_request THEN get_request_language ELSE "en")
                 ELSE language
        lang == IF lang0 = "en-US,en;q=0.5" THEN "en" ELSE lang0
        ks == _extract_translation_keys(o, excl, inclusions)
    IN  IF ks = {} THEN [keys |-> ks, source |-> o, ev |-> <<"extract">>]
        ELSE [keys |-> ks,
              source |-> translation_dispatch(PyNone, o, _translate_keys(ks, lang), excl,
                                              inclusions),
              ev |-> <<"extract", "translate_keys", "translate">>]

-----------------------------------------------------------------------------
(* The trees, filters and Translation rows of the translation calls, and   *)
(* the calls: one call of _translate, repeated with the same arguments on  *)
(* the tree it returned, or one extraction pass alone                      *)

Leaves ==
    {StrLeaf("Hello"), StrLeaf("Hello "), StrLeaf("12"), StrLeaf("12 "), StrLeaf("Draft "),
     StrLeaf("Open"), OtherLeaf("12")}

FewLeaves == {StrLeaf("Hello"), StrLeaf("12 "), StrLeaf("Draft "), StrLeaf("Open")}

Trees ==
    {DictNode(<<Item(k, l)>>) : k \in {"title", "id", ""}, l \in Leaves}
        \cup {DictNode(<<Item("title", l1), Item(k, ListNode(<<l2>>))>>) :
                 l1 \in FewLeaves, k \in {"items", "name"}, l2 \in FewLeaves}
        \cup {DictNode(<<Item(k, DictNode(<<Item("title", l)>>))>>) :
                 k \in {"status", "name"}, l \in Leaves}
        \cup {ListNode(<<l1, DictNode(<<Item("id", l2)>>)>>) :
                 l1 \in FewLeaves, l2 \in FewLeaves}

\* the keys of the trees
TreeKeys == {"title", "id", "name", "items", "status", ""}

\* (exclusions, inclusions) as the caller passes them
Filters ==
    {[exclusions |-> NoExclusions, inclusions |-> {}],
     [exclusions |-> Exclusions({}), inclusions |-> {}],
     [exclusions |-> Exclusions({"title", ""}), inclusions |-> {}],
     [exclusions |-> Exclusions({"title"}), inclusions |-> {"title", "items"}],
     [exclusions |-> NoExclusions, inclusions |-> {"status"}]}

Languages == {"ar", "", "en-US,en;q=0.5"}

\* the Translation rows of a site: none; rows whose translations have no
\* translation themselves; rows that chain, or translate to a text ending in a space
Stores ==
    { {},
      { Row("Hello", "ar", Lit("Marhaba")),
        Row("12", "ar", Lit("ithna ashar")),
        Row("Draft", "ar", Lit("Musawwada")),
        Row("Musawwada", "en", Lit("Rough copy")) },
      { Row("Hello", "ar", Lit("Marhaba")),
        Row("Marhaba", "ar", Lit("Ahlan")),
        Row("Open", "ar", Lit("Maftuh ")),
        Row("12", "ar", Lit("ithna ashar")),
        Row("Draft", "en", Lit("Draft copy")) } }

InitTranslate ==
    /\ impersonate_user = FALSE
    /\ logged_parameter_sources = {}
    /\ api_version = PyNone
    /\ session = [user |-> "ann", data_user |-> "ann"]
    /\ request \in {r \in HelperRequests : r.lang = "ar"}
    /\ translations \in Stores
    /\ error_codes = {}
    /\ db_pending = FALSE
    /\ http_status_code = 200
    /\ call = NoCall
    /\ ret = NoResult
    /\ trace = <<>>
    /\ args = NoArgs
    /\ obj \in Trees
    /\ keys = {}

\* what a translation call leaves alone
TranslationFrame ==
    UNCHANGED <<impersonate_user, logged_parameter_sources, api_version, session, request,
                translations, error_codes, db_pending, http_status_code>>

TranslationCall(op) ==
    [op |-> op, caller |-> session.user, kwargs |-> Absent, version |-> PyNone,
     handler |-> "", outcome |-> NoOutcome]

\* _translate(source, language, exclusions=, inclusions=), which returns source
translated(a) ==
    \E t \in {_translate(obj, a.language, a.exclusions, a.inclusions)} :
        /\ obj' = t.source
        /\ keys' = t.keys
        /\ trace' = t.ev
        /\ args' = [a EXCEPT !.source = obj]
        /\ call' = TranslationCall("_translate")
        /\ ret' = Result("source", NoEnvelope, NoException, NoMethod)
        /\ TranslationFrame

\* a call of _translate on a response tree
Translate ==
    /\ Ready
    /\ \E language \in Languages, f \in Filters :
          translated([op |-> "_translate", source |-> obj, language |-> language,
                      exclusions |-> f.exclusions, inclusions |-> f.inclusions,
                      again |-> FALSE])

\* _translate called again on the tree it returned, with the same arguments
TranslateAgain ==
    /\ call.op = "_translate"
    /\ translated([args EXCEPT !.again = TRUE])

\* a call of _extract_translation_keys alone
ExtractTranslationKeys ==
    /\ Ready
    /\ \E f \in Filters :
          /\ keys' = _extract_translation_keys(obj, f.exclusions.names, f.inclusions)
          /\ args' = [op |-> "_extract_translation_keys", source |-> obj, language |-> "",
                      exclusions |-> f.exclusions, inclusions |-> f.inclusions,
                      again |-> FALSE]
          /\ call' = TranslationCall("_extract_translation_keys")
          /\ ret' = Result("keys", NoEnvelope, NoException, NoMethod)
          /\ trace' = <<"extract">>
          /\ UNCHANGED obj
          /\ TranslationFrame

NextTranslate ==
    \/ Translate
    \/ TranslateAgain
    \/ ExtractTranslationKeys

SpecTranslate == InitTranslate /\ [][NextTranslate]_vars

-----------------------------------------------------------------------------
(* What the claims read off a translation call: args.source is the tree    *)
(* before the call, obj the tree after it                                  *)

Translated == call.op = "_translate"

\* the exclusions in force: the default when neither list is given
EffectiveExclusions ==
    IF ~args.exclusions.given /\ args.inclusions = {} THEN {"id", "name"}
    ELSE args.exclusions.names

\* the filter: inclusions, when there are any, decide alone
FilterExcludes(key) ==
    IF args.inclusions # {} THEN key \notin args.inclusions
    ELSE key \in EffectiveExclusions

ExcludedKeys == {key \in TreeKeys : FilterExcludes(key)}

ExcludedNonEmptyKeys == ExcludedKeys \ {""}

\* the same kind of node at every position, the same keys and lengths, and
\* the same value at every leaf that is not a string
RECURSIVE SameStructure(_, _)
SameStructure(before, after) ==
    /\ after.kind = before.kind
    /\ CASE before.kind \in {"dict", "list"} ->
               /\ Len(after.items) = Len(before.items)
               /\ \A n \in DOMAIN before.items :
                     /\ after.items[n].k = before.items[n].k
                     /\ SameStructure(before.items[n].v, after.items[n].v)
         [] before.kind = "str" -> TRUE
         [] OTHER -> after = before

\* the string leaves of a tree, each with its value before and after, and whether
\* its own key or the key of a container above it is among the excluded ones
RECURSIVE StringLeaves(_, _, _, _, _)
StringLeaves(k, before, after, shielded, excluded) ==
    LET here == shielded \/ (k # PyNone /\ k.s \in excluded)
    IN  CASE before.kind \in {"dict", "list"} ->
                UNION {StringLeaves(filter_key(before, before.items[n].k),
                                    before.items[n].v, after.items[n].v, here, excluded) :
                          n \in DOMAIN before.items}
          [] before.kind = "str" ->
                {[key |-> k, before |-> before.s, after |-> after.s, excluded |-> here]}
          [] OTHER -> {}

LeavesUnder(excluded) == StringLeaves(PyNone, args.source, obj, FALSE, excluded)

C16_DigitStringsUntouched ==
    call.op \in {"_translate", "_extract_translation_keys"} =>
        /\ \A x \in keys : ~IsDigit(x)
        /\ \A p \in LeavesUnder({}) : IsDigit(RStrip(p.before)) => p.after = p.before

\* the language of the Translation rows the call reads
TranslationLanguage ==
    IF args.language = "" THEN get_request_language
    ELSE IF args.language = "en-US,en;q=0.5" THEN "en"
    ELSE args.language

RowsOfLanguage == {r \in translations : r.language = TranslationLanguage}

\* no translated text ends in whitespace or has a different translation itself
StableTable ==
    \A r \in RowsOfLanguage :
        LET text == Text(r.translated_text)
        IN  \/ text = ""
            \/ /\ RStrip(text) = text
               /\ \/ IsDigit(text)
                  \/ \A q \in RowsOfLanguage :
                        q.source_text = text => Text(q.translated_text) \in {text, ""}

(* C17 as claimed: translating the result of a translation again, with the *)
(* same language, filter and table, changes nothing, for every tree,       *)
(* filter, language and table.                                             *)
C17_Idempotent ==
    (Translated /\ args.again) => obj = args.source

(* C17 amended: translating the result of a translation again, with the    *)
(* same language, filter and table, changes nothing, for every table in    *)
(* which no translated text ends in whitespace or is itself the source     *)
(* text of a different translation.                                        *)
C17_IdempotentOnStableTable ==
    (Translated /\ args.again /\ StableTable) => obj = args.source

\* "Hello" became "Marhaba" in the first call, and the second call kept it
C17_Witness ==
    /\ Translated /\ args.again /\ StableTable
    /\ Row("Hello", "ar", Lit("Marhaba")) \in RowsOfLanguage
    /\ obj = DictNode(<<Item("title", StrLeaf("Marhaba"))>>)
    /\ args.inclusions = {}

\* what the visitor of the substitution pass returned for a leaf
Visited(p) ==
    IF p.excluded THEN PyNone
    ELSE translation_visit_str(PyNone, RStrip(p.before),
                               _translate_keys(keys, TranslationLanguage), {}, {})

(* C18: the walker writes into the parent only when the visitor returns a  *)
(* non-null value that differs from the trimmed string it was given; when  *)
(* the visitor returns null or the trimmed string, the original untrimmed  *)
(* value stays: so a leaf with trailing whitespace that has no translation, *)
(* or that only the extraction pass visits, keeps its value.               *)
C18_UntrimmedValueStays ==
    /\ call.op = "_extract_translation_keys" => obj = args.source
    /\ (Translated /\ keys = {}) => obj = args.source
    /\ (Translated /\ keys # {}) =>
          \A p \in LeavesUnder(ExcludedNonEmptyKeys) :
              IF Visited(p) # PyNone /\ Visited(p).s # RStrip(p.before)
              THEN p.after = Visited(p).s
              ELSE p.after = p.before

====
